---- MODULE Spec2Model ----
(***************************************************************************)
(* Model of virtinst.installer.Installer (src/virtinst/installer.py) and   *)
(* of the URL detection test harness (src/tests/test_urls.py).             *)
(*                                                                         *)
(* Installer.start_install is modelled stage by stage: every stage of the  *)
(* method is one action, and every call into a collaborator that is not    *)
(* part of installer.py (guest, devices, libvirt connection, tree media)   *)
(* is a nondeterministic choice between its outcomes (return or raise).    *)
(* Python's None is the string "None"; an XML document is the record of    *)
(* the guest fields it is rendered from.                                   *)
(***************************************************************************)
EXTENDS Integers, Sequences, FiniteSets, TLC

\* ------------------------------------------------------------------ bounds
\* Disks a guest is configured with before the install.
MaxDisks == 2
\* Calls of cleanup_created_disks a client makes after an install.
MaxCleanups == 1

None == "None"
\* The absent document (None where an XML string may stand).
NoXml == [none |-> TRUE]

\* ------------------------------------------------------------ guest shapes
\* The kinds of disk device a guest is configured with before the install.
HdExisting == [device |-> "disk", path |-> "img", exists |-> TRUE,
               created |-> FALSE, bootidx |-> FALSE, install |-> FALSE]
HdNew == [device |-> "disk", path |-> "newimg", exists |-> FALSE,
          created |-> FALSE, bootidx |-> FALSE, install |-> FALSE]
CdExisting == [device |-> "cdrom", path |-> "cd", exists |-> TRUE,
               created |-> FALSE, bootidx |-> FALSE, install |-> FALSE]
DiskKinds == {HdExisting, HdNew, CdExisting}

RECURSIVE SeqsUpTo(_, _)
SeqsUpTo(S, n) ==
    IF n = 0 THEN {<<>>}
    ELSE LET shorter == SeqsUpTo(S, n - 1)
         IN shorter \cup {Append(s, x) : s \in {t \in shorter : Len(t) = n - 1}, x \in S}

DiskLists == SeqsUpTo(DiskKinds, MaxDisks)

\* The <os> block and reboot policy the caller configured before the install.
OsUnset == [bootorder |-> <<>>, kernel |-> None, initrd |-> None,
            kernel_args |-> <<>>, on_reboot |-> None]
OsAllSet == [bootorder |-> <<"hd">>, kernel |-> "ukernel", initrd |-> "uinitrd",
             kernel_args |-> <<"uargs">>, on_reboot |-> "restart"]
OsBootSet == [bootorder |-> <<"network", "hd">>, kernel |-> None, initrd |-> None,
              kernel_args |-> <<>>, on_reboot |-> "destroy"]
OsShapes == {OsUnset, OsAllSet, OsBootSet}

Guest(type, windows, os, disks) ==
    [type |-> type, windows |-> windows, container |-> FALSE,
     bootorder |-> os.bootorder, kernel |-> os.kernel, initrd |-> os.initrd,
     kernel_args |-> os.kernel_args, on_reboot |-> os.on_reboot,
     disks |-> disks]

\* ------------------------------------------------------------- Installer
\* Installer.__init__: the fields after construction.
InstallerInit(cdrom, location, install_bootdev) ==
    [livecd |-> FALSE,
     extra_args |-> <<>>,
     autostart |-> FALSE,
     install_bootdev |-> IF cdrom # None THEN "cdrom" ELSE install_bootdev,
     install_kernel |-> None,
     install_initrd |-> None,
     install_cdrom_device |-> FALSE,
     defaults_are_set |-> FALSE,
     cdrom |-> cdrom,
     treemedia |-> location]

\* Python truth of a constructor argument: None and "" are false.
Truthy(x) == x \notin {None, ""}

NoInst == [none |-> TRUE]

\* Mutation of __init__: the location kernel/initrd test moved behind the
\* cdrom and location blocks.
InstallerConstructLateCheck(a, path_ok, tree_ok) ==
    LET pair == Truthy(a.location_kernel) \/ Truthy(a.location_initrd)
        e1 == IF Truthy(a.cdrom) THEN <<"validate_path">> ELSE <<>>
        e2 == IF Truthy(a.location) THEN e1 \o <<"InstallerTreeMedia">> ELSE e1
    IN IF Truthy(a.cdrom) /\ ~path_ok
       THEN [raised |-> "validate_path", effects |-> e1, inst |-> NoInst]
       ELSE IF Truthy(a.location) /\ ~tree_ok
       THEN [raised |-> "treemedia", effects |-> e2, inst |-> NoInst]
       ELSE IF pair /\ ~Truthy(a.location)
       THEN [raised |-> "needs_location", effects |-> e2, inst |-> NoInst]
       ELSE IF pair /\ ~(Truthy(a.location_kernel) /\ Truthy(a.location_initrd))
       THEN [raised |-> "needs_pair", effects |-> e2, inst |-> NoInst]
       ELSE [raised |-> None, effects |-> e2,
             inst |-> InstallerInit(a.cdrom, a.location, a.install_bootdev)]

\* Installer.__init__ as a whole, lines 38-70: what it raises, the calls it
\* made on InstallerTreeMedia up to there (effects), and the Installer it
\* leaves.  path_ok and tree_ok are the outcomes of validate_path and of the
\* InstallerTreeMedia constructor.
InstallerConstruct(a, path_ok, tree_ok) ==
    LET pair == Truthy(a.location_kernel) \/ Truthy(a.location_initrd)
        e1 == IF Truthy(a.cdrom) THEN <<"validate_path">> ELSE <<>>
        e2 == IF Truthy(a.location) THEN e1 \o <<"InstallerTreeMedia">> ELSE e1
    IN IF pair /\ ~Truthy(a.location)
       THEN [raised |-> "needs_location", effects |-> <<>>, inst |-> NoInst]
       ELSE IF pair /\ ~(Truthy(a.location_kernel) /\ Truthy(a.location_initrd))
       THEN [raised |-> "needs_pair", effects |-> <<>>, inst |-> NoInst]
       ELSE IF Truthy(a.cdrom) /\ ~path_ok
       THEN [raised |-> "validate_path", effects |-> e1, inst |-> NoInst]
       ELSE IF Truthy(a.location) /\ ~tree_ok
       THEN [raised |-> "treemedia", effects |-> e2, inst |-> NoInst]
       ELSE [raised |-> None, effects |-> e2,
             inst |-> InstallerInit(a.cdrom, a.location, a.install_bootdev)]

\* InstallerTreeMedia.cdrom_path(): an ISO location doubles as CDROM media.
TreeCdromPath(location) == IF location = "isoloc" THEN "isoloc" ELSE None

\* Installer._cdrom_path
CdromPath(i) ==
    IF i.treemedia # None THEN TreeCdromPath(i.treemedia) ELSE i.cdrom

\* Installer.cdrom (property)
Cdrom(i) == i.cdrom

\* Installer.has_install_phase
HasInstallPhase(i) ==
    IF Cdrom(i) # None /\ i.livecd THEN FALSE
    ELSE (i.cdrom # None) \/ (i.install_bootdev # None) \/ (i.treemedia # None)


\* ------------------------------------------------------- sequence helpers
InSeq(x, s) == \E k \in 1..Len(s) : s[k] = x

InsertAt(s, idx, x) ==
    [k \in 1..(Len(s) + 1) |->
        IF k < idx THEN s[k] ELSE IF k = idx THEN x ELSE s[k - 1]]

\* Index of the first CDROM of a disk list, 0 when there is none.
RECURSIVE FirstCdrom(_, _)
FirstCdrom(disks, idx) ==
    IF idx > Len(disks) THEN 0
    ELSE IF disks[idx].device = "cdrom" THEN idx
    ELSE FirstCdrom(disks, idx + 1)

\* ----------------------------------------------------- private helpers
\* The device Installer._add_install_cdrom_device builds (lines 88-91).
InstallCdromDevice(i) ==
    [device |-> "cdrom", path |-> CdromPath(i), exists |-> TRUE,
     created |-> FALSE, bootidx |-> FALSE, install |-> TRUE]

\* Mutation of _add_install_cdrom_device: no test of _install_cdrom_device.
AddInstallCdromDeviceNoGuard(i, g, valid) ==
    IF CdromPath(i) = None THEN [inst |-> i, guest |-> g, raised |-> FALSE]
    ELSE IF ~valid THEN [inst |-> i, guest |-> g, raised |-> TRUE]
    ELSE LET dev == InstallCdromDevice(i)
             idx == FirstCdrom(g.disks, 1)
             disks == IF idx # 0 THEN InsertAt(g.disks, idx, dev)
                      ELSE Append(g.disks, dev)
         IN [inst |-> [i EXCEPT !.install_cdrom_device = TRUE],
             guest |-> [g EXCEPT !.disks = disks],
             raised |-> FALSE]

\* Installer._add_install_cdrom_device; valid is the outcome of dev.validate().
\* Returns the installer, the guest and whether the call raised.
AddInstallCdromDevice(i, g, valid) ==
    IF i.install_cdrom_device THEN [inst |-> i, guest |-> g, raised |-> FALSE]
    ELSE IF CdromPath(i) = None THEN [inst |-> i, guest |-> g, raised |-> FALSE]
    ELSE IF ~valid THEN [inst |-> i, guest |-> g, raised |-> TRUE]
    ELSE LET dev == InstallCdromDevice(i)
             idx == FirstCdrom(g.disks, 1)
             disks == IF idx # 0 THEN InsertAt(g.disks, idx, dev)
                      ELSE Append(g.disks, dev)
         IN [inst |-> [i EXCEPT !.install_cdrom_device = TRUE],
             guest |-> [g EXCEPT !.disks = disks],
             raised |-> FALSE]

\* Mutation of _remove_install_cdrom_media: no test for a windows guest.
RemoveInstallCdromMediaNoWindows(i, g) ==
    IF ~i.install_cdrom_device THEN g
    ELSE IF i.livecd THEN g
    ELSE [g EXCEPT !.disks = [k \in 1..Len(g.disks) |->
              IF g.disks[k].install THEN [g.disks[k] EXCEPT !.path = None]
              ELSE g.disks[k]]]

\* Installer._remove_install_cdrom_media
RemoveInstallCdromMedia(i, g) ==
    IF ~i.install_cdrom_device THEN g
    ELSE IF i.livecd THEN g
    ELSE IF g.windows THEN g
    ELSE [g EXCEPT !.disks = [k \in 1..Len(g.disks) |->
              IF g.disks[k].install THEN [g.disks[k] EXCEPT !.path = None]
              ELSE g.disks[k]]]

\* The loop of Installer._build_boot_order: stops at the first disk device.
RECURSIVE BootOrderLoop(_, _, _)
BootOrderLoop(disks, idx, bootorder) ==
    IF idx > Len(disks) THEN bootorder
    ELSE IF disks[idx].device = "disk"
         THEN IF ~InSeq("hd", bootorder) THEN Append(bootorder, "hd") ELSE bootorder
    ELSE BootOrderLoop(disks, idx + 1, bootorder)

\* Mutation of _build_boot_order: 'hd' appended without the membership test.
RECURSIVE BootOrderLoopNoTest(_, _, _)
BootOrderLoopNoTest(disks, idx, bootorder) ==
    IF idx > Len(disks) THEN bootorder
    ELSE IF disks[idx].device = "disk" THEN Append(bootorder, "hd")
    ELSE BootOrderLoopNoTest(disks, idx + 1, bootorder)

BuildBootOrderNoTest(g, bootdev) == BootOrderLoopNoTest(g.disks, 1, <<bootdev>>)

\* Installer._build_boot_order
BuildBootOrder(g, bootdev) == BootOrderLoop(g.disks, 1, <<bootdev>>)

\* Mutation of _can_set_guest_bootorder: no test for a container guest.
CanSetGuestBootorderNoContainer(g) ==
    /\ g.kernel = None
    /\ ~(\E k \in 1..Len(g.disks) : g.disks[k].bootidx)

\* Installer._can_set_guest_bootorder
CanSetGuestBootorder(g) ==
    /\ ~g.container
    /\ g.kernel = None
    /\ ~(\E k \in 1..Len(g.disks) : g.disks[k].bootidx)

\* Installer._alter_bootconfig
AlterBootconfig(i, g) ==
    LET g1 == [g EXCEPT !.on_reboot = "destroy"]
        g2 == IF i.install_kernel # None
              THEN [g1 EXCEPT !.kernel = i.install_kernel] ELSE g1
        g3 == IF i.install_initrd # None
              THEN [g2 EXCEPT !.initrd = i.install_initrd] ELSE g2
        \* " ".join(extra_args): a kernel command line is the sequence of its
        \* words, and the unset command line is the empty sequence
        g4 == IF i.extra_args # <<>>
              THEN [g3 EXCEPT !.kernel_args = i.extra_args] ELSE g3
        bootdev == i.install_bootdev
    IN IF bootdev # None /\ CanSetGuestBootorder(g4)
       THEN [g4 EXCEPT !.bootorder = BuildBootOrder(g4, bootdev)]
       ELSE [g4 EXCEPT !.bootorder = <<>>]

\* Installer._get_postinstall_bootdev
GetPostinstallBootdev(i, g) ==
    IF Cdrom(i) # None /\ i.livecd THEN "cdrom"
    ELSE IF i.install_bootdev # None
         THEN IF \E k \in 1..Len(g.disks) : g.disks[k].device = "disk"
              THEN "hd" ELSE i.install_bootdev
    ELSE LET device == IF Len(g.disks) > 0 THEN g.disks[1].device ELSE None
         IN IF device = "disk" THEN "hd"
            ELSE IF device = "cdrom" THEN "cdrom"
            ELSE IF device = "floppy" THEN "fd"
            ELSE "hd"

\* guest.get_xml(): the document is the record of what it is rendered from.
GetXml(g) ==
    [type |-> g.type, bootorder |-> g.bootorder, kernel |-> g.kernel,
     initrd |-> g.initrd, kernel_args |-> g.kernel_args,
     on_reboot |-> g.on_reboot,
     disks |-> [k \in 1..Len(g.disks) |->
                   [device |-> g.disks[k].device, path |-> g.disks[k].path]]]

\* Installer._prepare_get_install_xml
PrepareGetInstallXml(g) ==
    <<g.bootorder, g.kernel, g.initrd, g.kernel_args, g.on_reboot>>

\* Mutation of _finish_get_install_xml: the reboot policy is not put back.
FinishGetInstallXmlNoReboot(g, data) ==
    [g EXCEPT !.bootorder = data[1], !.kernel = data[2], !.initrd = data[3],
              !.kernel_args = data[4]]

\* Installer._finish_get_install_xml
FinishGetInstallXml(g, data) ==
    [g EXCEPT !.bootorder = data[1], !.kernel = data[2], !.initrd = data[3],
              !.kernel_args = data[4], !.on_reboot = data[5]]

\* Installer._get_install_xml; renders is the outcome of guest.get_xml().
\* The finally block runs whether or not rendering raised.
GetInstallXml(i, g, renders) ==
    LET data == PrepareGetInstallXml(g)
        altered == AlterBootconfig(i, g)
        after == FinishGetInstallXml(RemoveInstallCdromMedia(i, altered), data)
    IN [guest |-> after,
        xml |-> IF renders THEN GetXml(altered) ELSE NoXml,
        raised |-> ~renders]

\* Installer._build_xml; the two flags are the outcomes of the two renders,
\* raised names the render that raised.
BuildXmlResult(i, g, renders_install, renders_final) ==
    IF HasInstallPhase(i)
    THEN LET r == GetInstallXml(i, g, renders_install)
         IN IF r.raised
            THEN [guest |-> r.guest, install_xml |-> NoXml, final_xml |-> NoXml,
                  raised |-> "render_install"]
            ELSE [guest |-> r.guest, install_xml |-> r.xml,
                  final_xml |-> IF renders_final THEN GetXml(r.guest) ELSE NoXml,
                  raised |-> IF renders_final THEN None ELSE "render_final"]
    ELSE [guest |-> g, install_xml |-> NoXml,
          final_xml |-> IF renders_final THEN GetXml(g) ELSE NoXml,
          raised |-> IF renders_final THEN None ELSE "render_final"]

\* How the collaborators of set_install_defaults answer: dev.validate() of
\* the install CDROM raises ("invalid"), guest.set_defaults(None) raises
\* ("defaults_fail"), or neither does.
DefaultsOutcomes == {"ok", "invalid", "defaults_fail"}

\* Installer.set_install_defaults.  Returns the installer, the guest and
\* whether the call raised; what was written before a raise stays written.
SetInstallDefaultsResult(i, g, outcome) ==
    IF i.defaults_are_set THEN [inst |-> i, guest |-> g, raised |-> FALSE]
    ELSE LET a == AddInstallCdromDevice(i, g, outcome # "invalid")
         IN IF a.raised THEN a
            ELSE LET g1 == IF a.guest.bootorder = <<>> /\ CanSetGuestBootorder(a.guest)
                           THEN [a.guest EXCEPT !.bootorder =
                                    BuildBootOrder(a.guest,
                                        GetPostinstallBootdev(a.inst, a.guest))]
                           ELSE a.guest
                 IN IF outcome = "defaults_fail"
                    THEN [inst |-> a.inst, guest |-> g1, raised |-> TRUE]
                    ELSE [inst |-> [a.inst EXCEPT !.defaults_are_set = TRUE],
                          guest |-> g1, raised |-> FALSE]


\* ----------------------------------------------------- domain creation
\* The virtualization connection: the calls made on it so far in this
\* start_install, the persistent definition it holds, and whether the
\* domain runs.
ConnCall(c, op, xml, ok) ==
    [c EXCEPT !.log = Append(@, [op |-> op, xml |-> xml, ok |-> ok,
                                 why |-> IF ok THEN "ok" ELSE "error"])]

\* "install_xml or final_xml"
XmlOr(install_xml, final_xml) ==
    IF install_xml # NoXml THEN install_xml ELSE final_xml

\* conn.defineXML(xml)
DefineXML(c, xml, ok) ==
    IF ok THEN [ConnCall(c, "defineXML", xml, TRUE) EXCEPT !.defined = xml]
    ELSE ConnCall(c, "defineXML", xml, FALSE)

\* conn.createXML(xml, 0)
CreateXML(c, xml, ok) ==
    IF ok THEN [ConnCall(c, "createXML", xml, TRUE) EXCEPT !.running = TRUE]
    ELSE ConnCall(c, "createXML", xml, FALSE)

\* domain.create()
DomainCreate(c, ok) ==
    IF ok THEN [ConnCall(c, "create", NoXml, TRUE) EXCEPT !.running = TRUE]
    ELSE ConnCall(c, "create", NoXml, FALSE)

\* domain.undefine()
DomainUndefine(c, ok) ==
    IF ok THEN [ConnCall(c, "undefine", NoXml, TRUE) EXCEPT !.defined = NoXml]
    ELSE ConnCall(c, "undefine", NoXml, FALSE)

\* Mutation of _manual_transient_create: the final XML is never redefined.
ManualTransientCreateNoRedefine(c, install_xml, final_xml, needs_boot, f, undef_ok) ==
    LET c1 == DefineXML(c, XmlOr(install_xml, final_xml), f # "defineXML")
    IN IF f = "defineXML" THEN [conn |-> c1, raised |-> "defineXML", domain |-> FALSE]
       ELSE IF ~needs_boot THEN [conn |-> c1, raised |-> None, domain |-> TRUE]
       ELSE LET c2 == DomainCreate(c1, f # "create")
            IN IF f = "create"
               THEN [conn |-> DomainUndefine(c2, undef_ok), raised |-> "create",
                     domain |-> FALSE]
               ELSE [conn |-> c2, raised |-> None, domain |-> TRUE]

\* Mutation of _manual_transient_create: a failing undefine is not swallowed.
ManualTransientCreateUndefineRaises(c, install_xml, final_xml, needs_boot, f, undef_ok) ==
    LET c1 == DefineXML(c, XmlOr(install_xml, final_xml), f # "defineXML")
    IN IF f = "defineXML" THEN [conn |-> c1, raised |-> "defineXML", domain |-> FALSE]
       ELSE IF ~needs_boot THEN [conn |-> c1, raised |-> None, domain |-> TRUE]
       ELSE LET c2 == DomainCreate(c1, f # "create")
            IN IF f = "create"
               THEN [conn |-> DomainUndefine(c2, undef_ok),
                     raised |-> IF undef_ok THEN "create" ELSE "undefine",
                     domain |-> FALSE]
               ELSE IF install_xml # NoXml /\ install_xml # final_xml
               THEN LET c3 == DefineXML(c2, final_xml, f # "defineXML2")
                    IN IF f = "defineXML2"
                       THEN [conn |-> c3, raised |-> "defineXML", domain |-> FALSE]
                       ELSE [conn |-> c3, raised |-> None, domain |-> TRUE]
               ELSE [conn |-> c2, raised |-> None, domain |-> TRUE]

\* Mutation of _manual_transient_create: a failed start is re-raised with no
\* attempt to undefine.
ManualTransientCreateNoUndefine(c, install_xml, final_xml, needs_boot, f, undef_ok) ==
    LET c1 == DefineXML(c, XmlOr(install_xml, final_xml), f # "defineXML")
    IN IF f = "defineXML" THEN [conn |-> c1, raised |-> "defineXML", domain |-> FALSE]
       ELSE IF ~needs_boot THEN [conn |-> c1, raised |-> None, domain |-> TRUE]
       ELSE LET c2 == DomainCreate(c1, f # "create")
            IN IF f = "create"
               THEN [conn |-> c2, raised |-> "create", domain |-> FALSE]
               ELSE IF install_xml # NoXml /\ install_xml # final_xml
               THEN LET c3 == DefineXML(c2, final_xml, f # "defineXML2")
                    IN IF f = "defineXML2"
                       THEN [conn |-> c3, raised |-> "defineXML", domain |-> FALSE]
                       ELSE [conn |-> c3, raised |-> None, domain |-> TRUE]
               ELSE [conn |-> c2, raised |-> None, domain |-> TRUE]

\* Installer._manual_transient_create.  f names the connection call that
\* raises ("none": no call does), undef_ok the outcome of domain.undefine().
ManualTransientCreate(c, install_xml, final_xml, needs_boot, f, undef_ok) ==
    LET c1 == DefineXML(c, XmlOr(install_xml, final_xml), f # "defineXML")
    IN IF f = "defineXML" THEN [conn |-> c1, raised |-> "defineXML", domain |-> FALSE]
       ELSE IF ~needs_boot THEN [conn |-> c1, raised |-> None, domain |-> TRUE]
       ELSE LET c2 == DomainCreate(c1, f # "create")
            IN IF f = "create"
               THEN \* except: try undefine, swallow its failure, re-raise
                    [conn |-> DomainUndefine(c2, undef_ok), raised |-> "create",
                     domain |-> FALSE]
               ELSE IF install_xml # NoXml /\ install_xml # final_xml
               THEN LET c3 == DefineXML(c2, final_xml, f # "defineXML2")
                    IN IF f = "defineXML2"
                       THEN [conn |-> c3, raised |-> "defineXML", domain |-> FALSE]
                       ELSE [conn |-> c3, raised |-> None, domain |-> TRUE]
               ELSE [conn |-> c2, raised |-> None, domain |-> TRUE]

\* Mutation of line 361: a transient install is booted only if needs_boot.
DirectCreateBootsOnNeedOnly(c, install_xml, final_xml, needs_boot, transient, f) ==
    LET c1 == IF needs_boot
              THEN CreateXML(c, XmlOr(install_xml, final_xml), f # "createXML")
              ELSE c
    IN IF needs_boot /\ f = "createXML"
       THEN [conn |-> c1, raised |-> "createXML", domain |-> FALSE]
       ELSE IF ~transient
       THEN LET c2 == DefineXML(c1, final_xml, f # "defineXML")
            IN IF f = "defineXML"
               THEN [conn |-> c2, raised |-> "defineXML", domain |-> FALSE]
               ELSE [conn |-> c2, raised |-> None, domain |-> TRUE]
       ELSE [conn |-> c1, raised |-> None, domain |-> TRUE]

\* The createXML / defineXML branch of Installer._create_guest (lines 361-364).
DirectCreate(c, install_xml, final_xml, needs_boot, transient, f) ==
    LET boots == transient \/ needs_boot
        c1 == IF boots THEN CreateXML(c, XmlOr(install_xml, final_xml), f # "createXML")
              ELSE c
    IN IF boots /\ f = "createXML"
       THEN [conn |-> c1, raised |-> "createXML", domain |-> FALSE]
       ELSE IF ~transient
       THEN LET c2 == DefineXML(c1, final_xml, f # "defineXML")
            IN IF f = "defineXML"
               THEN [conn |-> c2, raised |-> "defineXML", domain |-> FALSE]
               ELSE [conn |-> c2, raised |-> None, domain |-> TRUE]
       ELSE [conn |-> c1, raised |-> None, domain |-> TRUE]

\* Installer._create_guest.  desc_ok is the outcome of domain.XMLDesc(0),
\* whose failure is only logged.
CreateGuestResult(g, i, c, install_xml, final_xml, doboot, transient, f, undef_ok, desc_ok) ==
    LET needs_boot == doboot \/ HasInstallPhase(i)
        r == IF g.type = "vz"
             THEN IF transient
                  THEN [conn |-> c, raised |-> "vz_transient", domain |-> FALSE]
                  ELSE ManualTransientCreate(c, install_xml, final_xml,
                                             needs_boot, f, undef_ok)
             ELSE DirectCreate(c, install_xml, final_xml, needs_boot, transient, f)
    IN IF r.raised # None THEN r
       ELSE [r EXCEPT !.conn = ConnCall(r.conn, "XMLDesc", NoXml, desc_ok)]

\* Mutation of _flag_autostart: every libvirtError is taken for "no support".
FlagAutostartSwallowsLibvirt(c, outcome) ==
    [conn |-> [c EXCEPT !.log = Append(@, [op |-> "setAutostart", xml |-> NoXml,
                                           ok |-> outcome = "ok", why |-> outcome])],
     raised |-> IF outcome \in {"ok", "nosupport", "libvirt"} THEN None
                ELSE "autostart"]

\* Installer._flag_autostart.  outcome is what domain.setAutostart(True)
\* does: "ok", "nosupport" (a libvirtError that is_error_nosupport accepts),
\* "libvirt" (any other libvirtError) or "other" (any other exception).
FlagAutostartResult(c, outcome) ==
    [conn |-> [c EXCEPT !.log = Append(@, [op |-> "setAutostart", xml |-> NoXml,
                                           ok |-> outcome = "ok", why |-> outcome])],
     raised |-> IF outcome \in {"ok", "nosupport"} THEN None ELSE "autostart"]

\* ------------------------------------------------------------- storage
\* disk.build_storage(meter): creates the storage of a disk that has none.
NeedsStorage(d) == ~d.exists /\ ~d.created

BuildOne(d) == IF NeedsStorage(d) THEN [d EXCEPT !.exists = TRUE, !.created = TRUE] ELSE d

\* The loop of start_install lines 407-408; fail_at is the index of the disk
\* whose build_storage raises, 0 when none does.
StorageLoop(disks, fail_at) ==
    [k \in 1..Len(disks) |->
        IF fail_at = 0 \/ k < fail_at THEN BuildOne(disks[k]) ELSE disks[k]]

\* Mutation of get_created_disks: only the first created disk is reported.
RECURSIVE CreatedFrom(_, _)
CreatedFrom(disks, idx) ==
    IF idx > Len(disks) THEN <<>>
    ELSE IF disks[idx].created THEN <<idx>> \o CreatedFrom(disks, idx + 1)
    ELSE CreatedFrom(disks, idx + 1)

GetCreatedDisksFirstOnly(g) ==
    LET all == CreatedFrom(g.disks, 1) IN IF all = <<>> THEN <<>> ELSE <<all[1]>>

\* Installer.get_created_disks: the indices of the created disks, in order.
GetCreatedDisks(g) == CreatedFrom(g.disks, 1)

\* One pass of the removal loop of cleanup_created_disks over clean[k..]:
\* fails is the set of disks whose deletion raises.  The except clause logs
\* and goes on to the next disk.
RECURSIVE RemoveLoop(_, _, _, _, _)
RemoveLoop(disks, clean, k, fails, attempts) ==
    IF k > Len(clean) THEN [disks |-> disks, attempts |-> attempts, raised |-> FALSE]
    ELSE LET idx == clean[k]
             after == IF idx \in fails THEN disks
                      ELSE [disks EXCEPT ![idx].exists = FALSE]
         IN RemoveLoop(after, clean, k + 1, fails, Append(attempts, idx))

\* Mutation of cleanup_created_disks: no except clause around the deletion.
RECURSIVE RemoveLoopNoExcept(_, _, _, _, _)
RemoveLoopNoExcept(disks, clean, k, fails, attempts) ==
    IF k > Len(clean) THEN [disks |-> disks, attempts |-> attempts, raised |-> FALSE]
    ELSE LET idx == clean[k]
         IN IF idx \in fails
            THEN [disks |-> disks, attempts |-> Append(attempts, idx), raised |-> TRUE]
            ELSE RemoveLoopNoExcept([disks EXCEPT ![idx].exists = FALSE], clean,
                                    k + 1, fails, Append(attempts, idx))

CleanupCreatedDisksNoExcept(g, fails) ==
    RemoveLoopNoExcept(g.disks, GetCreatedDisks(g), 1, fails, <<>>)

\* Installer.cleanup_created_disks
CleanupCreatedDisksResult(g, fails) ==
    LET clean_disks == GetCreatedDisks(g)
    IN IF clean_disks = <<>>
       THEN [disks |-> g.disks, attempts |-> <<>>, raised |-> FALSE]
       ELSE RemoveLoop(g.disks, clean_disks, 1, fails, <<>>)


\* ---------------------------------------------------------------- state
VARIABLES
    guest,      \* the Guest instance handed to the Installer
    inst,       \* the Installer's fields
    conn,       \* the virtualization connection: [log, defined, running]
    scratch,    \* TRUE while the tree media holds scratch resources
    pc,         \* position in start_install: "idle" outside a call
    call,       \* the arguments of the current start_install
    pre,        \* guest, installer and connection when the call began
    xmls,       \* the (install_xml, final_xml) pair of _build_xml
    err,        \* the exception travelling through the finally clause
    ret,        \* the value a return statement inside the try has produced
    result,     \* how the last start_install ended
    cleanups,   \* calls of _cleanup in the current start_install
    built,      \* disks whose storage the current start_install created
    removed,    \* what the last cleanup_created_disks did, and the calls made
    \* --- tests/test_urls.py
    hints,      \* the OS name set on the module's hvmguest and xenguest
    fetcher,    \* fetchers opened and closed by _fetchWrapper so far
    upc,        \* position in the current URL test
    td,         \* the _URLTestData of the current test
    tests,      \* URL tests started so far
    attempt,    \* loop index of the running _storeForDistro
    outcomes,   \* outcome of each getDistroStore call, per _storeForDistro call
    stores,     \* how _storeForDistro ended for the hvm and for the xen guest
    \* --- calls around start_install, and the collaborators' contracts
    ctor,       \* the Installer(...) construction under way, and its effects
    again,      \* start_install calls made after the first one returned
    prev,       \* how the previous start_install on this Installer ended
    dcalls,     \* set_install_defaults calls made by the application
    det,        \* a tree under detection and what each mode returned
    boot        \* an installer and a guest before and after _alter_bootconfig

ivars == <<guest, inst, conn, scratch, pc, call, pre, xmls, err, ret, result,
           cleanups, built, removed>>
uvars == <<hints, fetcher, upc, td, tests, attempt, outcomes, stores>>
xvars == <<ctor, again, prev, dcalls, det, boot>>
vars == <<ivars, uvars, xvars>>

\* The install media choices: (cdrom, location, install_bootdev, livecd, windows).
MediaChoices ==
    { <<None, None, None, FALSE, FALSE>>,         \* import of an existing disk
      <<None, None, "network", FALSE, FALSE>>,    \* PXE
      <<"iso", None, None, FALSE, FALSE>>,        \* --cdrom
      <<"iso", None, None, FALSE, TRUE>>,         \* --cdrom, windows guest
      <<"iso", None, None, TRUE, FALSE>>,         \* --cdrom --livecd
      <<None, "url", None, FALSE, FALSE>>,        \* --location URL
      <<None, "isoloc", None, FALSE, FALSE>>,     \* --location ISO
      <<None, "isoloc", None, FALSE, TRUE>> }

NoCall == [dry |-> FALSE, return_xml |-> FALSE, doboot |-> FALSE, transient |-> FALSE]
NoConn == [log |-> <<>>, defined |-> NoXml, running |-> FALSE]
NoXmls == [install |-> NoXml, final |-> NoXml]
NoResult == [kind |-> "none", err |-> None]
NoRemoved == [n |-> 0, before |-> <<>>, attempts |-> <<>>, raised |-> FALSE]

\* The state of Guest and Installer after construction, before any call.
InstallerStart(m, type, os, disks, autostart) ==
    /\ guest = Guest(type, m[5], os, disks)
    /\ inst = [InstallerInit(m[1], m[2], m[3]) EXCEPT
                  !.livecd = m[4], !.autostart = autostart]
    /\ conn = NoConn
    /\ scratch = FALSE
    /\ pc = "idle"
    /\ call = NoCall
    /\ pre = [guest |-> guest, inst |-> inst, conn |-> conn, scratch |-> scratch]
    /\ xmls = NoXmls
    /\ err = None
    /\ ret = "none"
    /\ result = NoResult
    /\ cleanups = 0
    /\ built = {}
    /\ removed = NoRemoved

NoTest == [distro |-> None, testxen |-> FALSE, testshortcircuit |-> FALSE,
           url502 |-> FALSE, matches |-> FALSE]
NoStores == [hvm |-> "none", xen |-> "none"]
NoOutcomes == [hvm |-> <<>>, xen |-> <<>>]

\* tests/test_urls.py at import: lines 95-99, no test started.
HarnessStart ==
    /\ hints = [hvm |-> None, xen |-> None]
    /\ fetcher = [opened |-> 0, closed |-> 0]
    /\ upc = "idle"
    /\ td = NoTest
    /\ tests = 0
    /\ attempt = 0
    /\ outcomes = NoOutcomes
    /\ stores = NoStores

\* The arguments an application passes to Installer(...).
CtorArgs ==
    [cdrom : {None, "iso"}, location : {None, "url", "isoloc"},
     install_bootdev : {None, "network"},
     location_kernel : {None, "", "vmlinuz"},
     location_initrd : {None, "", "initrd.img"}]

NoArgs == [cdrom |-> None, location |-> None, install_bootdev |-> None,
           location_kernel |-> None, location_initrd |-> None]
NoCtor == [args |-> NoArgs, pc |-> "none", raised |-> None, effects |-> <<>>,
           inst |-> NoInst]
NoPrev == [kind |-> "none", xmls |-> NoXmls, args |-> <<>>]
NoDet == [none |-> TRUE]
NoBoot == [none |-> TRUE]

\* Nothing but the first start_install is under way.
XStart ==
    /\ ctor = NoCtor
    /\ again = 0
    /\ prev = NoPrev
    /\ dcalls = 0
    /\ det = NoDet
    /\ boot = NoBoot

Init ==
    /\ \E m \in MediaChoices, type \in {"kvm", "vz"}, os \in OsShapes,
          disks \in DiskLists, autostart \in BOOLEAN :
            InstallerStart(m, type, os, disks, autostart)
    /\ HarnessStart
    /\ XStart

\* -------------------------------------------------------------- actions
\* An exception raised inside the try of start_install: the finally clause
\* runs next.
Raise(e) == /\ err' = e
            /\ pc' = "cleanup"

\* An exception raised before the try: it leaves start_install at once.
RaiseOutside(e) == /\ result' = [kind |-> "raised", err |-> e]
                   /\ pc' = "done"

\* Entry into Installer.start_install.  doboot and transient are read by
\* _create_guest alone, so calls that return before it take the defaults.
EnterStartInstall ==
    /\ \E dry \in BOOLEAN, return_xml \in BOOLEAN, doboot \in BOOLEAN,
          transient \in BOOLEAN :
        /\ (dry \/ return_xml) => (doboot /\ ~transient)
        /\ call' = [dry |-> dry, return_xml |-> return_xml, doboot |-> doboot,
                    transient |-> transient]
    /\ pre' = [guest |-> guest, inst |-> inst, conn |-> conn, scratch |-> scratch]
    /\ conn' = [conn EXCEPT !.log = <<>>]
    /\ xmls' = NoXmls
    /\ err' = None
    /\ ret' = "none"
    /\ result' = NoResult
    /\ cleanups' = 0
    /\ built' = {}
    /\ pc' = "validate"
    /\ UNCHANGED <<guest, inst, scratch, removed>>

\* The first start_install on an Installer.
StartInstall ==
    /\ pc = "idle"
    /\ EnterStartInstall
    /\ UNCHANGED uvars
    /\ UNCHANGED xvars

\* Mutation of line 400-401: the name is validated after the defaults are set.
ValidateAfterDefaults ==
    /\ pc = "validate"
    /\ \E ok \in BOOLEAN :
        IF ok THEN /\ pc' = "defaults"
                   /\ UNCHANGED <<guest, inst, result>>
        ELSE LET r == SetInstallDefaultsResult(inst, guest, "ok")
             IN /\ guest' = r.guest
                /\ inst' = r.inst
                /\ RaiseOutside("validate")
    /\ UNCHANGED <<conn, scratch, call, pre, xmls, err, ret, cleanups, built,
                   removed>>
    /\ UNCHANGED uvars
    /\ UNCHANGED xvars

\* Line 400: guest.validate_name(guest.conn, guest.name)
Validate ==
    /\ pc = "validate"
    /\ \E ok \in BOOLEAN :
        IF ok THEN /\ pc' = "defaults"
                   /\ UNCHANGED result
        ELSE RaiseOutside("validate")
    /\ UNCHANGED <<guest, inst, conn, scratch, call, pre, xmls, err, ret,
                   cleanups, built, removed>>
    /\ UNCHANGED uvars
    /\ UNCHANGED xvars

\* Line 401: self.set_install_defaults(guest)
SetInstallDefaults ==
    /\ pc = "defaults"
    /\ \E outcome \in DefaultsOutcomes :
        LET r == SetInstallDefaultsResult(inst, guest, outcome)
        IN /\ guest' = r.guest
           /\ inst' = r.inst
           /\ IF r.raised
              THEN RaiseOutside("defaults")
              ELSE /\ pc' = "prepare"
                   /\ UNCHANGED result
    /\ UNCHANGED <<conn, scratch, call, pre, xmls, err, ret, cleanups, built,
                   removed>>
    /\ UNCHANGED uvars
    /\ UNCHANGED xvars

\* Mutation of line 406: storage is built in a dry run too.
AfterPrepareIgnoresDry == "storage"

\* Where start_install goes after _prepare (line 406).
AfterPrepare == IF call.dry THEN "build_xml" ELSE "storage"

\* Installer._prepare (line 404).  treemedia.prepare returns the kernel, the
\* initrd and the extra argument (a, possibly none), or raises; whether the
\* scratch directory exists when it raises is its own business.  The extra
\* argument is dropped when VIRTINST_INITRD_TEST is in the environment.
Prepare ==
    /\ pc = "prepare"
    /\ IF inst.treemedia # None
       THEN \/ \E a \in {None, "method"}, initrd_test \in BOOLEAN :
                /\ inst' = [inst EXCEPT
                       !.install_kernel = "ikernel",
                       !.install_initrd = "iinitrd",
                       !.extra_args = IF a # None /\ ~initrd_test
                                      THEN Append(@, a) ELSE @]
                /\ scratch' = TRUE
                /\ pc' = AfterPrepare
                /\ UNCHANGED err
            \/ \E s \in BOOLEAN :
                /\ scratch' = s
                /\ Raise("prepare")
                /\ UNCHANGED inst
       ELSE /\ pc' = AfterPrepare
            /\ UNCHANGED <<inst, scratch, err>>
    /\ UNCHANGED <<guest, conn, call, pre, xmls, ret, result, cleanups, built,
                   removed>>
    /\ UNCHANGED uvars
    /\ UNCHANGED xvars

\* Lines 406-408: storage of every disk, unless dry.
BuildStorage ==
    /\ pc = "storage"
    /\ \E fail_at \in {0} \cup {k \in 1..Len(guest.disks) : NeedsStorage(guest.disks[k])} :
        LET disks == StorageLoop(guest.disks, fail_at)
        IN /\ guest' = [guest EXCEPT !.disks = disks]
           /\ built' = {k \in 1..Len(disks) : disks[k].exists /\ ~guest.disks[k].exists}
           /\ IF fail_at # 0 THEN Raise("storage")
              ELSE /\ pc' = "build_xml"
                   /\ UNCHANGED err
    /\ UNCHANGED <<inst, conn, scratch, call, pre, xmls, ret, result, cleanups,
                   removed>>
    /\ UNCHANGED uvars
    /\ UNCHANGED xvars

\* Lines 410-414: _build_xml, then the two early returns.
BuildXml ==
    /\ pc = "build_xml"
    /\ \E renders_install \in BOOLEAN, renders_final \in BOOLEAN :
        LET r == BuildXmlResult(inst, guest, renders_install, renders_final)
        IN /\ guest' = r.guest
           /\ IF r.raised # None
              THEN /\ Raise(r.raised)
                   /\ UNCHANGED <<xmls, ret>>
              ELSE /\ xmls' = [install |-> r.install_xml, final |-> r.final_xml]
                   /\ UNCHANGED err
                   /\ IF call.return_xml THEN ret' = "xml" /\ pc' = "cleanup"
                      ELSE IF call.dry THEN ret' = "dry" /\ pc' = "cleanup"
                      ELSE ret' = ret /\ pc' = "create"
    /\ UNCHANGED <<inst, conn, scratch, call, pre, result, cleanups, built,
                   removed>>
    /\ UNCHANGED uvars
    /\ UNCHANGED xvars

\* The connection calls that may raise in _create_guest.
FailPoints == {"none", "createXML", "defineXML", "create", "defineXML2"}

\* Lines 416-422 up to the autostart test: _create_guest.
CreateGuest ==
    /\ pc = "create"
    /\ \E f \in FailPoints, undef_ok \in BOOLEAN, desc_ok \in BOOLEAN :
        LET r == CreateGuestResult(guest, inst, conn, xmls.install, xmls.final,
                                   call.doboot, call.transient, f, undef_ok, desc_ok)
        IN /\ conn' = r.conn
           /\ IF r.raised # None
              THEN /\ Raise(r.raised)
                   /\ UNCHANGED ret
              ELSE /\ UNCHANGED err
                   /\ IF inst.autostart
                      THEN pc' = "autostart" /\ ret' = ret
                      ELSE pc' = "cleanup" /\ ret' = "domain"
    /\ UNCHANGED <<guest, inst, scratch, call, pre, xmls, result, cleanups,
                   built, removed>>
    /\ UNCHANGED uvars
    /\ UNCHANGED xvars

\* Lines 420-422: _flag_autostart(domain), then return domain.
FlagAutostart ==
    /\ pc = "autostart"
    /\ \E outcome \in {"ok", "nosupport", "libvirt", "other"} :
        LET r == FlagAutostartResult(conn, outcome)
        IN /\ conn' = r.conn
           /\ IF r.raised # None
              THEN /\ Raise(r.raised)
                   /\ UNCHANGED ret
              ELSE /\ ret' = "domain"
                   /\ pc' = "cleanup"
                   /\ UNCHANGED err
    /\ UNCHANGED <<guest, inst, scratch, call, pre, xmls, result, cleanups,
                   built, removed>>
    /\ UNCHANGED uvars
    /\ UNCHANGED xvars

\* Mutation of lines 423-424: _cleanup after the try instead of in a finally.
CleanupOnSuccessOnly ==
    /\ pc = "cleanup"
    /\ cleanups' = IF err # None THEN cleanups ELSE cleanups + 1
    /\ scratch' = IF inst.treemedia # None /\ err = None THEN FALSE ELSE scratch
    /\ result' = IF err # None THEN [kind |-> "raised", err |-> err]
                 ELSE [kind |-> ret, err |-> None]
    /\ pc' = "done"
    /\ UNCHANGED <<guest, inst, conn, call, pre, xmls, err, ret, built, removed>>
    /\ UNCHANGED uvars
    /\ UNCHANGED xvars

\* Lines 423-424: the finally clause, Installer._cleanup, and the exit of
\* start_install with the pending exception or return value.
Cleanup ==
    /\ pc = "cleanup"
    /\ cleanups' = cleanups + 1
    /\ scratch' = IF inst.treemedia # None THEN FALSE ELSE scratch
    /\ result' = IF err # None THEN [kind |-> "raised", err |-> err]
                 ELSE [kind |-> ret, err |-> None]
    /\ pc' = "done"
    /\ UNCHANGED <<guest, inst, conn, call, pre, xmls, err, ret, built, removed>>
    /\ UNCHANGED uvars
    /\ UNCHANGED xvars

\* A client's call of Installer.cleanup_created_disks once start_install has
\* returned or raised.
CleanupCreatedDisks ==
    /\ pc = "done"
    /\ removed.n < MaxCleanups
    /\ \E fails \in SUBSET {k \in 1..Len(guest.disks) : guest.disks[k].created} :
        LET r == CleanupCreatedDisksResult(guest, fails)
        IN /\ guest' = [guest EXCEPT !.disks = r.disks]
           /\ removed' = [n |-> removed.n + 1, before |-> guest.disks,
                          attempts |-> r.attempts, raised |-> r.raised]
    /\ UNCHANGED <<inst, conn, scratch, pc, call, pre, xmls, err, ret, result,
                   cleanups, built>>
    /\ UNCHANGED uvars
    /\ UNCHANGED xvars

Next ==
    \/ StartInstall
    \/ Validate
    \/ SetInstallDefaults
    \/ Prepare
    \/ BuildStorage
    \/ BuildXml
    \/ CreateGuest
    \/ FlagAutostart
    \/ Cleanup
    \/ CleanupCreatedDisks

Spec == Init /\ [][Next]_vars


\* ------------------------------------------------- tests/test_urls.py
\* URL tests run in one process.
MaxTests == 2
\* range(0, 10) of _storeForDistro
MaxAttempts == 10

\* What one getDistroStore call can do: return a store, raise an error whose
\* text holds "502" (the proxy error), raise the ValueError of a tree no
\* distro matches, or raise anything else.
AttemptOutcomes == {"store", "proxy", "nomatch", "other"}

\* Whether the text of the exception of a failed attempt holds "502".  The
\* proxy error does; the ValueError of a tree no distro matches names the
\* location it was looking at, and holds "502" when the location does.
ErrorText502(outcome, url502) ==
    \/ outcome = "proxy"
    \/ outcome = "nomatch" /\ url502

\* One iteration of the loop of _storeForDistro (lines 110-117): what the
\* loop does with the outcome of getDistroStore; text502 is the test
\* '"502" in str(e)' of line 113.
StoreStep(outcome, text502) ==
    IF outcome = "store" THEN "return"
    ELSE IF text502 THEN "continue"
    ELSE "raise"

\* The tests the harness is given (test_urls.ini), as far as the harness
\* reads them before the stores are compared.
\* url502: the text of the URL holds "502"; matches: the tree at the URL
\* is one some distro family matches.
TestData ==
    [distro : {None, "fedora29"}, testxen : BOOLEAN, testshortcircuit : BOOLEAN,
     url502 : BOOLEAN, matches : BOOLEAN]

\* What getDistroStore can do at the URL of test d: a proxy error and any
\* other error can hit every attempt; an attempt that gets through finds
\* the store of the tree, or finds that no distro matches it.
OutcomesAt(d) ==
    {o \in AttemptOutcomes : (o = "store" => d.matches) /\ (o = "nomatch" => ~d.matches)}

\* _testURLWrapper / _fetchWrapper / _testURL up to line 141: a fetcher is
\* made for the URL, and the expected distro is set on both guests when the
\* test asks for the short circuit.
RunTest ==
    /\ upc \in {"idle", "passed", "failed"}
    /\ tests < MaxTests
    /\ \E d \in TestData :
        /\ td' = d
        /\ hints' = IF d.testshortcircuit
                    THEN [hvm |-> d.distro, xen |-> d.distro] ELSE hints
    /\ fetcher' = [fetcher EXCEPT !.opened = @ + 1]
    /\ tests' = tests + 1
    /\ upc' = "hvm"
    /\ attempt' = 0
    /\ outcomes' = NoOutcomes
    /\ stores' = NoStores
    /\ UNCHANGED ivars
    /\ UNCHANGED xvars

\* Where _testURL goes when the _storeForDistro call of guest g has returned.
AfterStore(g) == IF g = "hvm" /\ td.testxen THEN "xen" ELSE "check"

\* One iteration of _storeForDistro for the guest upc names.
StoreAttempt ==
    /\ upc \in {"hvm", "xen"}
    /\ attempt < MaxAttempts
    /\ \E outcome \in OutcomesAt(td) :
        /\ outcomes' = [outcomes EXCEPT ![upc] = Append(@, outcome)]
        /\ LET step == StoreStep(outcome, ErrorText502(outcome, td.url502))
           IN IF step = "return"
              THEN /\ stores' = [stores EXCEPT ![upc] = "store"]
                   /\ upc' = AfterStore(upc)
                   /\ attempt' = IF AfterStore(upc) = "xen" THEN 0 ELSE attempt
              ELSE IF step = "continue"
              THEN /\ attempt' = attempt + 1
                   /\ UNCHANGED <<stores, upc>>
              ELSE \* re-raised; _testURL turns it into an AssertionError
                   /\ stores' = [stores EXCEPT ![upc] = outcome]
                   /\ upc' = "failed"
                   /\ UNCHANGED attempt
    /\ UNCHANGED <<hints, fetcher, td, tests>>
    /\ UNCHANGED ivars
    /\ UNCHANGED xvars

\* Line 118: the loop of _storeForDistro ran out; the bare raise has no
\* active exception and raises a RuntimeError.
StoreExhausted ==
    /\ upc \in {"hvm", "xen"}
    /\ attempt = MaxAttempts
    /\ stores' = [stores EXCEPT ![upc] = "exhausted"]
    /\ upc' = "failed"
    /\ UNCHANGED <<hints, fetcher, td, tests, attempt, outcomes>>
    /\ UNCHANGED ivars
    /\ UNCHANGED xvars

\* Lines 152-196: the stores are compared with the test data; what they hold
\* is the detection engine's business.
CheckStores ==
    /\ upc = "check"
    /\ \E verdict \in {"passed", "failed"} : upc' = verdict
    /\ UNCHANGED <<hints, fetcher, td, tests, attempt, outcomes, stores>>
    /\ UNCHANGED ivars
    /\ UNCHANGED xvars

\* The URL tests next to an Installer nobody calls.
InitURL ==
    /\ InstallerStart(<<None, None, None, FALSE, FALSE>>, "kvm", OsUnset, <<>>, FALSE)
    /\ HarnessStart
    /\ XStart

NextURL ==
    \/ RunTest
    \/ StoreAttempt
    \/ StoreExhausted
    \/ CheckStores

SpecURL == InitURL /\ [][NextURL]_vars


\* ------------------------------------- repeated calls on one Installer
MaxAgain == 1
MaxDefaultsCalls == 1

\* The guests and installers the repeated calls are run on.
RepeatDisks == {<<>>, <<CdExisting, HdExisting>>}

InitRepeat ==
    /\ \E m \in MediaChoices, disks \in RepeatDisks, autostart \in BOOLEAN :
            InstallerStart(m, "kvm", OsUnset, disks, autostart)
    /\ HarnessStart
    /\ XStart

\* start_install called again on the same Installer and guest after the
\* previous call has returned or raised.
StartInstallAgain ==
    /\ pc = "done"
    /\ again < MaxAgain
    /\ EnterStartInstall
    /\ again' = again + 1
    /\ prev' = [kind |-> result.kind, xmls |-> xmls, args |-> inst.extra_args]
    /\ UNCHANGED <<ctor, dcalls, det, boot>>
    /\ UNCHANGED uvars

\* set_install_defaults called by the application, outside start_install.
SetDefaultsCall ==
    /\ pc \in {"idle", "done"}
    /\ dcalls < MaxDefaultsCalls
    /\ \E outcome \in DefaultsOutcomes :
        LET r == SetInstallDefaultsResult(inst, guest, outcome)
        IN /\ guest' = r.guest
           /\ inst' = r.inst
    /\ dcalls' = dcalls + 1
    /\ UNCHANGED <<conn, scratch, pc, call, pre, xmls, err, ret, result,
                   cleanups, built, removed>>
    /\ UNCHANGED <<ctor, again, prev, det, boot>>
    /\ UNCHANGED uvars

NextRepeat ==
    \/ StartInstall
    \/ StartInstallAgain
    \/ SetDefaultsCall
    \/ Validate
    \/ SetInstallDefaults
    \/ Prepare
    \/ BuildStorage
    \/ BuildXml
    \/ CreateGuest
    \/ FlagAutostart
    \/ Cleanup

SpecRepeat == InitRepeat /\ [][NextRepeat]_vars


\* ------------------------------------------------------ distro detection
\* The distro families in priority order, the catch-all last, and the
\* family each OS variant belongs to.
Families == <<"fedora", "debian", "generic">>
Variants == {"fedora29", "debian9"}
FamilyOf(v) == IF v = "fedora29" THEN "fedora" ELSE "debian"

\* An install tree: the families whose marker files it holds, the OS variant
\* its metadata names (None: undeterminable) and whether the kernel is where
\* the families look for it.
Trees == [markers : SUBSET {"fedora", "debian", "generic"},
          variant : Variants \cup {None}, kernel : BOOLEAN]

\* The first family of fams, from position k on, that matches the tree.
RECURSIVE FirstMatch(_, _, _)
FirstMatch(fams, tree, k) ==
    IF k > Len(fams) THEN None
    ELSE IF fams[k] \in tree.markers THEN fams[k]
    ELSE FirstMatch(fams, tree, k + 1)

NoDescriptor == [ok |-> FALSE, err |-> None, family |-> None, variant |-> None,
                 kernel |-> <<>>]

\* buildDescriptor of family f: a hard failure when the kernel is not found.
BuildDescriptor(f, tree, shape) ==
    IF ~tree.kernel THEN [NoDescriptor EXCEPT !.err = "kernel"]
    ELSE [ok |-> TRUE, err |-> None, family |-> f, variant |-> tree.variant,
          kernel |-> <<f, shape>>]

\* Mutation of detect: with a hint, the hinted family's matches is skipped.
DetectTrusting(tree, shape, hint) ==
    LET f == IF hint # None THEN FamilyOf(hint) ELSE FirstMatch(Families, tree, 1)
    IN IF f = None THEN [NoDescriptor EXCEPT !.err = "nomatch"]
       ELSE BuildDescriptor(f, tree, shape)

\* DistroDetector.detect: with a hint only the hinted family is tested,
\* without one all families are, in priority order.
Detect(tree, shape, hint) ==
    LET fams == IF hint # None THEN <<FamilyOf(hint)>> ELSE Families
        f == FirstMatch(fams, tree, 1)
    IN IF f = None THEN [NoDescriptor EXCEPT !.err = "nomatch"]
       ELSE BuildDescriptor(f, tree, shape)

\* A tree and a guest shape, no detection run yet.
InitDetect ==
    /\ InstallerStart(<<None, None, None, FALSE, FALSE>>, "kvm", OsUnset, <<>>, FALSE)
    /\ HarnessStart
    /\ ctor = NoCtor /\ again = 0 /\ prev = NoPrev /\ dcalls = 0 /\ boot = NoBoot
    /\ \E t \in Trees, shape \in {"hvm", "xen"} :
          det = [tree |-> t, shape |-> shape, full |-> NoDescriptor,
                 short |-> NoDescriptor, ran |-> {}]

\* Detection by the full priority scan: no hint on the guest.
DetectFull ==
    /\ det # NoDet
    /\ "full" \notin det.ran
    /\ det' = [det EXCEPT !.full = Detect(det.tree, det.shape, None),
                          !.ran = @ \cup {"full"}]
    /\ UNCHANGED <<ctor, again, prev, dcalls, boot>>
    /\ UNCHANGED ivars
    /\ UNCHANGED uvars

\* Detection with the variant of the tree asserted on the guest beforehand.
DetectShort ==
    /\ det # NoDet
    /\ "short" \notin det.ran
    /\ det.tree.variant # None
    /\ det' = [det EXCEPT !.short = Detect(det.tree, det.shape, det.tree.variant),
                          !.ran = @ \cup {"short"}]
    /\ UNCHANGED <<ctor, again, prev, dcalls, boot>>
    /\ UNCHANGED ivars
    /\ UNCHANGED uvars

NextDetect ==
    \/ DetectFull
    \/ DetectShort

SpecDetect == InitDetect /\ [][NextDetect]_vars


\* --------------------------------------------- install boot configuration
\* A disk that declares a per-device boot order (<boot order='1'/>).
HdBootIdx == [HdExisting EXCEPT !.bootidx = TRUE]
BootDisks == {<<>>, <<HdExisting>>, <<CdExisting, HdExisting>>, <<HdBootIdx>>,
              <<CdExisting, HdBootIdx>>}

\* The media choices, and a location given together with a boot device.
BootMedia == MediaChoices \cup {<<None, "url", "network", FALSE, FALSE>>}

\* The installers _alter_bootconfig is called on: those with an install
\* phase, after _prepare, which has set the install kernel and initrd when
\* there is tree media, and an extra argument when the tree gave one.
BootInstallers ==
    {i \in {[InstallerInit(m[1], m[2], m[3]) EXCEPT
                !.livecd = m[4],
                !.install_kernel = IF m[2] # None THEN "ikernel" ELSE None,
                !.install_initrd = IF m[2] # None THEN "iinitrd" ELSE None,
                !.extra_args = IF m[2] # None /\ a THEN <<"method">> ELSE <<>>]
              : m \in BootMedia, a \in BOOLEAN} : HasInstallPhase(i)}

\* An installer and a guest, container or not, ahead of _alter_bootconfig.
InitBoot ==
    /\ InstallerStart(<<None, None, None, FALSE, FALSE>>, "kvm", OsUnset, <<>>, FALSE)
    /\ HarnessStart
    /\ ctor = NoCtor /\ again = 0 /\ prev = NoPrev /\ dcalls = 0 /\ det = NoDet
    /\ \E i \in BootInstallers, os \in OsShapes, disks \in BootDisks,
          container \in BOOLEAN :
          boot = [inst |-> i,
                  guest |-> [Guest("kvm", FALSE, os, disks) EXCEPT
                                !.container = container],
                  after |-> NoXml,
                  pc |-> "new"]

\* self._alter_bootconfig(guest), line 299.
AlterBoot ==
    /\ boot # NoBoot
    /\ boot.pc = "new"
    /\ boot' = [boot EXCEPT !.after = AlterBootconfig(boot.inst, boot.guest),
                            !.pc = "done"]
    /\ UNCHANGED <<ctor, again, prev, dcalls, det>>
    /\ UNCHANGED ivars
    /\ UNCHANGED uvars

NextBoot == AlterBoot

SpecBoot == InitBoot /\ [][NextBoot]_vars


\* ------------------------------------------------- Installer construction
\* An application is about to construct an Installer with arguments a.
InitCtor ==
    /\ InstallerStart(<<None, None, None, FALSE, FALSE>>, "kvm", OsUnset, <<>>, FALSE)
    /\ HarnessStart
    /\ again = 0 /\ prev = NoPrev /\ dcalls = 0 /\ det = NoDet /\ boot = NoBoot
    /\ \E a \in CtorArgs : ctor = [NoCtor EXCEPT !.args = a, !.pc = "new"]

\* Installer(conn, cdrom, location, install_bootdev, location_kernel,
\* location_initrd)
Construct ==
    /\ ctor.pc = "new"
    /\ \E path_ok \in BOOLEAN, tree_ok \in BOOLEAN :
        LET r == InstallerConstruct(ctor.args, path_ok, tree_ok)
        IN ctor' = [args |-> ctor.args, pc |-> "done", raised |-> r.raised,
                    effects |-> r.effects, inst |-> r.inst]
    /\ UNCHANGED <<again, prev, dcalls, det, boot>>
    /\ UNCHANGED ivars
    /\ UNCHANGED uvars

NextCtor == Construct

SpecCtor == InitCtor /\ [][NextCtor]_vars


\* ============================================================== properties
\* The five fields _get_install_xml snapshots.
BootFields(g) == <<g.bootorder, g.kernel, g.initrd, g.kernel_args, g.on_reboot>>

\* All five were set by the caller.
AllSet(g) ==
    /\ g.bootorder # <<>>
    /\ g.kernel # None
    /\ g.initrd # None
    /\ g.kernel_args # <<>>
    /\ g.on_reboot # None

Exited == pc = "done"
Raised(e) == Exited /\ result.kind = "raised" /\ result.err = e

\* The positions of the calls of op in the connection log.
CallsOf(op) == {k \in 1..Len(conn.log) : conn.log[k].op = op}

BootDevs == {"hd", "cdrom", "network", "fd"}

HasHardDisk(g) == \E k \in 1..Len(g.disks) : g.disks[k].device = "disk"

\* C1: when start_install returns or raises on a guest whose bootorder,
\* kernel, initrd, kernel_args and on_reboot were all set before the call,
\* the five fields have their pre-call values, whatever the mode of the call
\* and whichever stage raised (the rendering of the install XML included).
C1_RestoreOnExit ==
    (Exited /\ AllSet(pre.guest)) => BootFields(guest) = BootFields(pre.guest)

\* C1 witness: the install XML was being rendered from the altered guest
\* when get_xml raised, on a guest with all five fields set.
C1_Witness ==
    /\ Raised("render_install")
    /\ AllSet(pre.guest)
    /\ BootFields(AlterBootconfig(inst, guest)) # BootFields(guest)

\* C2: _build_boot_order puts the requested device first, appends 'hd' as
\* second entry exactly when the guest has a disk of type disk and 'hd' is
\* not the requested device, and returns neither duplicates nor more than
\* two entries; checked for every boot device on every guest reached.
C2_BuildBootOrder ==
    /\ \A b \in BootDevs :
        LET r == BuildBootOrder(guest, b)
        IN /\ Len(r) \in {1, 2}
           /\ r[1] = b
           /\ (Len(r) = 2) <=> (HasHardDisk(guest) /\ b # "hd")
           /\ (Len(r) = 2) => (r[2] = "hd" /\ r[1] # r[2])
    /\ BuildBootOrder(Guest("kvm", FALSE, OsUnset, <<HdExisting>>), "cdrom")
          = <<"cdrom", "hd">>
    /\ BuildBootOrder(Guest("kvm", FALSE, OsUnset, <<>>), "network") = <<"network">>

\* C2 witness: an install XML rendered with the computed order [cdrom, hd]
\* for a guest whose hard disk comes after a CDROM.
C2_Witness ==
    /\ xmls.install # NoXml
    /\ xmls.install.bootorder = <<"cdrom", "hd">>
    /\ guest.disks[1].device = "cdrom"
    /\ HasHardDisk(guest)

\* The XML of the last defineXML call in the log, NoXml when there is none.
LastDefined ==
    IF CallsOf("defineXML") = {} THEN NoXml
    ELSE conn.log[CHOOSE k \in CallsOf("defineXML") :
                      \A j \in CallsOf("defineXML") : j <= k].xml

\* C3: when a non-transient start_install returns a domain after booting an
\* install XML that differs from the final XML, the last defineXML call was
\* given the final XML and succeeded, and the connection's persistent
\* definition is the final XML, for vz guests and for the others.
C3_FinalXmlDefined ==
    (/\ Exited
     /\ result.kind = "domain"
     /\ ~call.transient
     /\ xmls.install # NoXml
     /\ xmls.install # xmls.final)
    => /\ LastDefined = xmls.final
       /\ conn.defined = xmls.final
       /\ conn.defined # xmls.install

\* C3 witness: a vz guest defined with the install XML, started, and then
\* redefined.
C3_Witness ==
    /\ Exited
    /\ result.kind = "domain"
    /\ guest.type = "vz"
    /\ xmls.install # NoXml
    /\ xmls.install # xmls.final
    /\ conn.log[1].op = "defineXML"
    /\ conn.log[1].xml = xmls.install
    /\ conn.log[2].op = "create"

\* C4: on the define-then-start path, when domain.create() fails after
\* defineXML succeeded, undefine is attempted exactly once, right after the
\* create, nothing is defined afterwards, and start_install raises the
\* create failure, whether or not the undefine succeeded.
C4_UndefineOnCreateFailure ==
    (Exited /\ \E k \in CallsOf("create") : ~conn.log[k].ok)
    => /\ Cardinality(CallsOf("undefine")) = 1
       /\ Cardinality(CallsOf("defineXML")) = 1
       /\ Cardinality(CallsOf("create")) = 1
       /\ \A k \in CallsOf("create") : (k + 1) \in CallsOf("undefine")
       /\ \A k \in CallsOf("undefine") : k = Len(conn.log)
       /\ \A k \in CallsOf("defineXML") : conn.log[k].ok /\ k = 1
       /\ Raised("create")

\* C4 witness: the start failed and the undefine failed too.
C4_Witness ==
    /\ Raised("create")
    /\ \E k \in CallsOf("undefine") : ~conn.log[k].ok
    /\ \E k \in CallsOf("create") : ~conn.log[k].ok


\* The stages whose failure leaves start_install before the try is entered.
OutsideTry == {"validate", "defaults"}

\* C5 as stated: _cleanup has run on every exit of start_install, whichever
\* stage the call failed in.
C5_CleanupOnEveryExit == Exited => cleanups = 1

\* C5 amended: _cleanup runs exactly once on every exit of start_install
\* that follows the set-defaults stage (a return, or a failure in prepare,
\* storage allocation, XML building, domain creation or autostart), and the
\* tree media then holds no scratch resources; a failure of name validation
\* or of set_install_defaults leaves start_install without running it.
C5_CleanupAfterDefaults ==
    Exited =>
        IF result.kind = "raised" /\ result.err \in OutsideTry
        THEN cleanups = 0
        ELSE /\ cleanups = 1
             /\ inst.treemedia # None => ~scratch

\* C5 witness: the tree media raised in prepare with its scratch directory
\* made, and the finally clause released it.
C5_Witness ==
    /\ Raised("prepare")
    /\ cleanups = 1
    /\ inst.treemedia # None
    /\ ~scratch

\* The disk devices of a list the installer did not add itself.
OwnDisks(disks) == SelectSeq(disks, LAMBDA d : ~d.install)

\* C6: cleanup_created_disks attempts the deletion of each disk whose
\* storage_was_created is set, once, and of no other disk; it leaves every
\* other disk as it was; and it returns normally although deletions failed,
\* having attempted every created disk.
C6_CleanupCreatedDisks ==
    removed.n > 0 =>
        LET created == {k \in 1..Len(removed.before) : removed.before[k].created}
        IN /\ {removed.attempts[k] : k \in 1..Len(removed.attempts)} = created
           /\ Len(removed.attempts) = Cardinality(created)
           /\ ~removed.raised
           /\ Len(guest.disks) = Len(removed.before)
           /\ \A k \in 1..Len(guest.disks) :
                 k \notin created => guest.disks[k] = removed.before[k]

\* C6 witness: two created disks next to a disk that was there before; the
\* deletion of the first failed and the second was deleted all the same.
C6_Witness ==
    /\ removed.n > 0
    /\ Len(removed.attempts) = 2
    /\ guest.disks[removed.attempts[1]].exists
    /\ ~guest.disks[removed.attempts[2]].exists
    /\ \E k \in 1..Len(guest.disks) : ~guest.disks[k].created /\ guest.disks[k].exists

\* C7: until a client calls cleanup_created_disks, no storage that existed
\* when start_install was entered, and none it created, is gone, and from
\* the storage stage on (also when that stage or a later one raises)
\* get_created_disks reports every disk whose storage this call created.
C7_CreatedDisksTracked ==
    removed.n = 0 =>
        /\ \A k \in 1..Len(pre.guest.disks) :
              pre.guest.disks[k].exists => OwnDisks(guest.disks)[k].exists
        /\ \A k \in built :
              /\ guest.disks[k].exists
              /\ \E j \in 1..Len(GetCreatedDisks(guest)) : GetCreatedDisks(guest)[j] = k

\* C7 witness: both disks were created, then createXML failed.
C7_Witness ==
    /\ Raised("createXML")
    /\ Cardinality(built) = 2
    /\ removed.n = 0


\* C8: for each _storeForDistro call: at most 10 getDistroStore attempts are
\* made; every attempt but the last failed with the proxy error, so that a
\* store or any other failure ends the call in the attempt that produced it;
\* the call returns a store only from a successful attempt and raises the
\* other failure it met; and after 10 proxy failures it ends with a failure
\* of its own, never with a store.
C8_BoundedProxyRetry ==
    \A g \in {"hvm", "xen"} :
        LET o == outcomes[g]
            n == Len(o)
        IN /\ n <= MaxAttempts
           /\ \A k \in 1..(n - 1) : o[k] = "proxy"
           /\ (n > 0 /\ o[n] # "proxy") => stores[g] = o[n]
           /\ stores[g] = "store" => (n > 0 /\ o[n] = "store")
           /\ stores[g] \in {"nomatch", "other"} => (n > 0 /\ o[n] = stores[g])
           /\ stores[g] = "exhausted" => (n = MaxAttempts /\ o[n] = "proxy")
           /\ (n = MaxAttempts /\ o[n] = "proxy") =>
                 \/ stores[g] = "exhausted"
                 \/ (stores[g] = "none" /\ upc = g /\ attempt = MaxAttempts)

\* C9: setAutostart is called at most once, only when autostart was asked
\* for and only after _create_guest returned a domain (its XMLDesc call is
\* in the log); start_install returns the domain when the setter succeeds or
\* reports no support, and raises the setter's error otherwise.
C9_Autostart ==
    /\ Cardinality(CallsOf("setAutostart")) <= 1
    /\ \A k \in CallsOf("setAutostart") :
        /\ inst.autostart
        /\ ~call.dry /\ ~call.return_xml
        /\ k = Len(conn.log)
        /\ (k - 1) \in CallsOf("XMLDesc")
        /\ Exited =>
              IF conn.log[k].why \in {"ok", "nosupport"}
              THEN result.kind = "domain"
              ELSE Raised("autostart")
    /\ (Exited /\ result.kind = "domain" /\ inst.autostart)
          => CallsOf("setAutostart") # {}

\* C9 witness: the host does not support autostart and the domain is
\* returned.
C9_Witness ==
    /\ Exited
    /\ result.kind = "domain"
    /\ \E k \in CallsOf("setAutostart") : conn.log[k].why = "nosupport"

\* C10: when guest.validate_name raises, start_install raises with the
\* guest, the installer, the connection and the scratch state exactly as
\* they were: no defaults set, nothing prepared, no storage built, no boot
\* configuration written, no XML built, no connection call.
C10_ValidateFailsFast ==
    Raised("validate") =>
        /\ guest = pre.guest
        /\ inst = pre.inst
        /\ ~inst.defaults_are_set
        /\ conn = pre.conn
        /\ conn.log = <<>>
        /\ scratch = pre.scratch
        /\ built = {}
        /\ xmls = NoXmls
        /\ cleanups = 0

\* C10 witness: validation failed on an install that had a CDROM to insert,
\* a boot order to compute and storage to create.
C10_Witness ==
    /\ Raised("validate")
    /\ CdromPath(inst) # None
    /\ guest.bootorder = <<>>
    /\ \E k \in 1..Len(guest.disks) : NeedsStorage(guest.disks[k])
    /\ ~call.dry

\* ------------------------------------------------------------------ C11
PairGiven(a) == Truthy(a.location_kernel) \/ Truthy(a.location_initrd)
PairBroken(a) ==
    ~Truthy(a.location) \/ ~(Truthy(a.location_kernel) /\ Truthy(a.location_initrd))

\* C11: constructing an Installer with a location kernel or initrd but with
\* no location, or with only one of the two, fails with a validation error,
\* and it fails before the cdrom path is validated and before a tree media
\* object is created.
C11_PairValidatedFirst ==
    (ctor.pc = "done" /\ PairGiven(ctor.args) /\ PairBroken(ctor.args))
        => /\ ctor.raised \in {"needs_location", "needs_pair"}
           /\ (~Truthy(ctor.args.location) => ctor.raised = "needs_location")
           /\ ctor.effects = <<>>
           /\ ctor.inst = NoInst

C11_Witness ==
    /\ ctor.pc = "done"
    /\ ctor.raised = "needs_pair"
    /\ ctor.args.cdrom = "iso"
    /\ ctor.args.location = "url"
    /\ ctor.args.location_kernel = ""


\* ------------------------------------------------------------------ C12
InstallCdroms(g) == {k \in 1..Len(g.disks) : g.disks[k].install}

\* A step of set_install_defaults, called by start_install or directly.
DefaultsStep == pc = "defaults" \/ dcalls' # dcalls

\* C12: over any sequence of set_install_defaults and start_install calls on
\* one Installer and guest the install CDROM is inserted into the guest at
\* most once, and once a set_install_defaults call has completed every later
\* one leaves the guest (device list, boot order and the rest) unchanged.
C12_DefaultsOnce ==
    /\ [](Cardinality(InstallCdroms(guest)) <= 1)
    /\ [][(inst.defaults_are_set /\ DefaultsStep) => guest' = guest]_vars

C12_Witness ==
    /\ again = 1
    /\ dcalls = 1
    /\ pc = "prepare"
    /\ inst.defaults_are_set
    /\ Cardinality(InstallCdroms(guest)) = 1
    /\ guest.bootorder # <<>>

\* ------------------------------------------------------------------ C13
\* The calls of the current start_install that created or defined a domain.
Booted == \E k \in CallsOf("createXML") \cup CallsOf("create") : conn.log[k].ok
Defined == \E k \in CallsOf("defineXML") : conn.log[k].ok

\* The XML of the last defineXML call that succeeded.
LastOkDefined ==
    LET oks == {k \in CallsOf("defineXML") : conn.log[k].ok}
    IN conn.log[CHOOSE k \in oks : \A j \in oks : j <= k].xml

\* C13 as stated: when start_install raises after one of its calls created
\* or defined a domain (the define of the final XML failing after the boot,
\* or the autostart setter failing), no domain of the failed call is left
\* running or defined.
C13_UnwindAfterCreation ==
    ((Raised("defineXML") \/ Raised("autostart")) /\ (Booted \/ Defined))
        => (~conn.running /\ conn.defined = NoXml)

\* C13 amended: the orchestrator unwinds one failure only.  When
\* domain.create() fails after defineXML on the define-then-start path, an
\* undefine is attempted, and if it succeeds nothing of the failed call is
\* left defined or running.  When the define of the final XML fails after
\* the boot, or the autostart setter fails, the failure is raised with no
\* unwinding: what the call started is still running and what it defined
\* is still defined.
C13_UnwindOnStartFailureOnly ==
    /\ Raised("create")
        => /\ CallsOf("undefine") # {}
           /\ (\A k \in CallsOf("undefine") : conn.log[k].ok)
                => (~conn.running /\ conn.defined = NoXml)
    /\ (Raised("defineXML") \/ Raised("autostart"))
        => /\ CallsOf("undefine") = {}
           /\ conn.running = Booted
           /\ conn.defined = (IF Defined THEN LastOkDefined ELSE NoXml)

C13_Witness ==
    /\ Raised("defineXML")
    /\ Booted
    /\ conn.running
    /\ guest.type = "kvm"

\* ------------------------------------------------------------------ C14
\* A step that runs _get_install_xml.
InstallXmlStep == pc = "build_xml" /\ HasInstallPhase(inst)

\* C14 as stated: _get_install_xml leaves the whole guest configuration as
\* it found it, whether it returns or raises: the five boot fields, the
\* device list and the media path of every device, the install CDROM's
\* included.
C14_GuestUntouched == [][InstallXmlStep => guest' = guest]_vars

\* The media path _get_install_xml leaves on disk d.
PathAfterInstallXml(d) ==
    IF d.install /\ ~inst.livecd /\ ~guest.windows THEN None ELSE d.path

\* C14 amended: _get_install_xml, whether it returns or raises, restores the
\* five boot fields and leaves the device list and every device as they
\* were, except the install CDROM: unless the install is a live CD or the
\* guest is a Windows guest, the install CDROM's media path is cleared and
\* stays cleared.
C14_GuestRestoredButMedia ==
    [][InstallXmlStep =>
        /\ BootFields(guest)' = BootFields(guest)
        /\ guest'.type = guest.type
        /\ guest'.windows = guest.windows
        /\ guest'.container = guest.container
        /\ Len(guest'.disks) = Len(guest.disks)
        /\ \A k \in 1..Len(guest.disks) :
              guest'.disks[k] =
                  [guest.disks[k] EXCEPT !.path = PathAfterInstallXml(guest.disks[k])]
      ]_vars

C14_Witness ==
    /\ pc = "create"
    /\ xmls.install # NoXml
    /\ \E k \in 1..Len(guest.disks) :
          /\ guest.disks[k].install
          /\ guest.disks[k].path = None
    /\ \E k \in 1..Len(xmls.install.disks) :
          xmls.install.disks[k].path \in {"iso", "isoloc"}
    /\ AllSet(pre.guest)
    /\ BootFields(guest) = BootFields(pre.guest)

\* ------------------------------------------------------------------ C15
\* The exception start_install raises when the connection call op fails.
ErrorOf(op) ==
    IF op = "setAutostart" THEN "autostart" ELSE op

\* The failed connection calls of the current start_install, autostart
\* found unsupported aside.
FailedCalls ==
    {k \in 1..Len(conn.log) : ~conn.log[k].ok /\ conn.log[k].why # "nosupport"}

\* C15 as stated: of the connection calls made during start_install only an
\* unsupported autostart is absorbed; a failure of defineXML, createXML,
\* domain.create, domain.undefine, domain.XMLDesc or setAutostart reaches
\* the caller as the exception of that call.
C15_NoCallFailureAbsorbed ==
    Exited => \A k \in FailedCalls : Raised(ErrorOf(conn.log[k].op))

\* The calls whose failure start_install absorbs.
Absorbed == {"undefine", "XMLDesc"}

\* C15 amended: besides an unsupported autostart, start_install absorbs a
\* failure of domain.undefine (after a failed start on the define-then-start
\* path) and a failure of domain.XMLDesc; a failure of defineXML, createXML,
\* domain.create or setAutostart for any other reason reaches the caller as
\* the exception of that call, and start_install returns a domain only when
\* no call other than the absorbed ones failed.
C15_OnlyListedFailuresAbsorbed ==
    Exited =>
        /\ \A k \in FailedCalls :
              conn.log[k].op \notin Absorbed => Raised(ErrorOf(conn.log[k].op))
        /\ result.kind = "domain"
              => \A k \in FailedCalls : conn.log[k].op = "XMLDesc"
        /\ \A k \in CallsOf("undefine") : ~conn.log[k].ok => Raised("create")

C15_Witness ==
    /\ Exited
    /\ result.kind = "domain"
    /\ \E k \in CallsOf("XMLDesc") : ~conn.log[k].ok
    /\ \E k \in CallsOf("setAutostart") : conn.log[k].why = "nosupport"

\* ------------------------------------------------------------------ C16
\* C16: every fetcher opened for a location has been closed exactly once
\* when the detection and fetch sequence using it has ended, whether the
\* test passed or detection failed or raised; none is closed twice.
C16_FetcherReleasedOnce ==
    /\ fetcher.closed <= fetcher.opened
    /\ upc \in {"passed", "failed"} => fetcher.closed = fetcher.opened

\* ------------------------------------------------------------------ C18
\* C18: a getDistroStore call on a location no distro family matches returns
\* no store: it raises the ValueError with the mistyped-location hint, and
\* _storeForDistro makes no further attempt after it but ends with that
\* error.
C18_NoMatchNotRetried ==
    \A g \in {"hvm", "xen"} :
        \A k \in 1..Len(outcomes[g]) :
            outcomes[g][k] = "nomatch"
                => (k = Len(outcomes[g]) /\ stores[g] = "nomatch")

\* ------------------------------------------------------------------ C17
\* Both detections of the tree have run.
BothRan == det # NoDet /\ det.ran = {"full", "short"}

CreatedCount(g) == Cardinality({k \in 1..Len(g.disks) : g.disks[k].created})

\* C19: a start_install with return_xml or dry set never creates the guest:
\* it makes no call on the connection (no createXML, defineXML,
\* domain.create, setAutostart), leaves what the connection holds as it was
\* and returns no domain.  With dry set it builds no disk storage either;
\* with return_xml set and dry unset the storage of every disk has been
\* built when the XML pair is returned.
C19_NoGuestOnDryOrXml ==
    /\ (call.dry \/ call.return_xml)
        => /\ conn.log = <<>>
           /\ conn.defined = pre.conn.defined
           /\ conn.running = pre.conn.running
           /\ pc \notin {"create", "autostart"}
           /\ result.kind \notin {"domain"}
    /\ call.dry
        => /\ built = {}
           /\ CreatedCount(guest) = CreatedCount(pre.guest)
           /\ pc # "storage"
    /\ (Exited /\ call.return_xml /\ result.kind # "raised")
        => /\ result.kind = "xml"
           /\ xmls.final # NoXml
           /\ ~call.dry => \A k \in 1..Len(guest.disks) : ~NeedsStorage(guest.disks[k])
    /\ (Exited /\ call.dry /\ ~call.return_xml /\ result.kind # "raised")
        => result.kind = "dry"

C19_Witness ==
    /\ Exited
    /\ call.return_xml
    /\ ~call.dry
    /\ result.kind = "xml"
    /\ built # {}
    /\ inst.autostart
    /\ conn.log = <<>>

\* ------------------------------------------------------------------ C20
\* The second start_install on a new Installer has returned an XML pair, as
\* the first did, and the tree media gave its _prepare the kernel argument
\* it gave the first call's.
TwoXmlCalls ==
    /\ Exited
    /\ again = 1
    /\ prev.kind = "xml"
    /\ result.kind = "xml"
    /\ call.return_xml
    /\ SubSeq(inst.extra_args, Len(prev.args) + 1, Len(inst.extra_args)) = prev.args

\* C20: two consecutive start_install(return_xml=True) calls on one
\* Installer and an unchanged guest return the same (install XML, final
\* XML) pair.
C20_RepeatableXml == TwoXmlCalls => xmls = prev.xmls

\* ------------------------------------------------------------------ C21
\* A device of g declares a per-device boot order.
HasBootIdx(g) == \E k \in 1..Len(g.disks) : g.disks[k].bootidx

\* C21: the guest-level boot order _alter_bootconfig leaves is non-empty only
\* if an install boot device is set, the guest is not a container, no kernel
\* is set once the install kernel has been applied, and no device declares a
\* per-device boot order; in every other case it is empty.  So the install
\* configuration never has a guest-level boot order next to a kernel or to a
\* per-device boot order.
C21_InstallBootOrder ==
    (boot # NoBoot /\ boot.pc = "done") =>
        LET i == boot.inst
            g == boot.guest
            a == boot.after
            allowed == /\ i.install_bootdev # None
                       /\ ~g.container
                       /\ g.kernel = None /\ i.install_kernel = None
                       /\ ~HasBootIdx(g)
        IN /\ (a.bootorder # <<>>) <=> allowed
           /\ a.bootorder # <<>> => (a.kernel = None /\ ~HasBootIdx(a))
           /\ a.bootorder # <<>> => a.bootorder[1] = i.install_bootdev

C21_Witness ==
    /\ boot # NoBoot
    /\ boot.pc = "done"
    /\ boot.guest.bootorder # <<>>
    /\ boot.guest.kernel = None
    /\ boot.inst.install_kernel = "ikernel"
    /\ boot.inst.install_bootdev # None
    /\ ~boot.guest.container
    /\ boot.after.bootorder = <<>>
    /\ boot.after.kernel = "ikernel"

\* ------------------------------------------------------------------ C22
\* _create_guest has been entered by the current start_install.
CreateStageRan ==
    /\ pc \in {"autostart", "cleanup", "done"}
    /\ xmls.final # NoXml
    /\ ~call.dry /\ ~call.return_xml

\* The calls that start a domain.
StartCalls == CallsOf("createXML") \cup CallsOf("create")

\* "install_xml or final_xml" of the pair _build_xml returned.
BootXml == IF xmls.install # NoXml THEN xmls.install ELSE xmls.final

\* C22: in _create_guest a domain is started (createXML, or domain.create
\* on the vz path) if and only if the install is transient, doboot is set
\* or the installer has an install phase, and defineXML is called if and
\* only if the install is not transient, a call being left out otherwise
\* only when an earlier call of the stage raised; a transient install on a
\* vz guest fails with no call made; and the XML that is booted is the
\* install XML when there is one, the final XML otherwise.
C22_CreateDecisions ==
    CreateStageRan =>
        LET vz == guest.type = "vz"
            boots == call.transient \/ call.doboot \/ HasInstallPhase(inst)
            failed(op) == \E k \in CallsOf(op) : ~conn.log[k].ok
        IN /\ (vz /\ call.transient)
                => (conn.log = <<>> /\ err = "vz_transient")
           /\ StartCalls # {} => boots
           /\ (boots /\ ~(vz /\ call.transient))
                => (StartCalls # {} \/ (vz /\ failed("defineXML")))
           /\ Cardinality(StartCalls) <= 1
           /\ CallsOf("defineXML") # {} => ~call.transient
           /\ ~call.transient
                => (CallsOf("defineXML") # {} \/ (~vz /\ failed("createXML")))
           /\ vz => CallsOf("createXML") = {}
           /\ ~vz => CallsOf("create") = {}
           /\ \A k \in CallsOf("createXML") : conn.log[k].xml = BootXml
           /\ \A k \in CallsOf("create") :
                 /\ k = 2
                 /\ conn.log[1].op = "defineXML"
                 /\ conn.log[1].ok
                 /\ conn.log[1].xml = BootXml

\* C22 witness: a transient install with nothing to install and doboot
\* unset boots the final XML and defines nothing.
C22_Witness ==
    /\ Exited
    /\ result.kind = "domain"
    /\ call.transient
    /\ ~call.doboot
    /\ ~HasInstallPhase(inst)
    /\ xmls.install = NoXml
    /\ \E k \in CallsOf("createXML") : conn.log[k].xml = xmls.final
    /\ CallsOf("defineXML") = {}

\* ------------------------------------------------------------------ C23
\* C23: while _testURL runs detection for a test case whose testshortcircuit
\* flag is off, neither the hvm nor the xen guest carries an OS-variant
\* hint, whatever test cases ran before on the shared guest objects.
C23_NoHintCarriedOver ==
    (upc \in {"hvm", "xen"} /\ ~td.testshortcircuit)
        => (hints.hvm = None /\ hints.xen = None)

====
